---- MODULE Spec2Model ----
(***************************************************************************)
(* Model of the viewlingo data service (src/db/api.py), its seeding script *)
(* (src/db/seed_db.py) and the voice-agent consumer script                 *)
(* (src/vapi/voice_agent.py).                                              *)
(*                                                                         *)
(* A datetime is the tuple <<year, month, day, hour, minute, second,       *)
(* microsecond>>; datetimes are ordered lexicographically, which is the    *)
(* order of the calendar and of the store's DateTime column.  A date       *)
(* string is a sequence of one-character strings; an ISO-8601 timestamp    *)
(* string is the record of the fields it prints.                           *)
(* Python None is the string "None" for a text column and the empty tuple  *)
(* for a datetime.                                                         *)
(***************************************************************************)
EXTENDS Integers, Sequences, FiniteSets, Bags

VARIABLES translations, locations, seeded, inflight, req, resp, calls

vars == <<translations, locations, seeded, inflight, req, resp, calls>>

(***************************************************************************)
(* Bounds of the exploration.                                              *)
(***************************************************************************)
\* accepted create requests (words added, locations added or being added)
MaxCreates == 2
\* create-location requests that are between their two store calls
MaxInflight == 2

None == "None"
NoTimestamp == <<>>
ValueError == <<>>

(***************************************************************************)
(* Characters and decimal formatting.                                      *)
(***************************************************************************)
Digits == <<"0", "1", "2", "3", "4", "5", "6", "7", "8", "9">>

DigitSet == {Digits[i] : i \in 1..10}

DigitVal(c) == (CHOOSE i \in 1..10 : Digits[i] = c) - 1

RECURSIVE Pow10(_)
Pow10(k) == IF k = 0 THEN 1 ELSE 10 * Pow10(k - 1)

\* n written in decimal, zero-padded to w characters ("%0wd").
Pad(n, w) == [i \in 1..w |-> Digits[((n \div Pow10(w - i)) % 10) + 1]]

\* the integer value of the digits s[a..b]
RECURSIVE int(_, _, _)
int(s, a, b) == IF b < a THEN 0 ELSE 10 * int(s, a, b - 1) + DigitVal(s[b])

(***************************************************************************)
(* datetime                                                                *)
(***************************************************************************)
IsLeap(y) == (y % 4 = 0 /\ y % 100 # 0) \/ y % 400 = 0

DaysInMonth(y, m) ==
    IF m = 2 THEN (IF IsLeap(y) THEN 29 ELSE 28)
    ELSE IF m \in {4, 6, 9, 11} THEN 30 ELSE 31

RECURSIVE LexLE(_, _, _)
LexLE(a, b, i) ==
    IF i > Len(a) THEN TRUE
    ELSE IF a[i] < b[i] THEN TRUE
    ELSE IF a[i] > b[i] THEN FALSE
    ELSE LexLE(a, b, i + 1)

\* a <= b on datetimes
DtLE(a, b) == LexLE(a, b, 1)

\* datetime.replace(hour=, minute=, second=, microsecond=)
replace(dt, h, mi, s, us) == <<dt[1], dt[2], dt[3], h, mi, s, us>>

\* datetime.isoformat(): "YYYY-MM-DDTHH:MM:SS", followed by ".ffffff" only
\* when the microsecond is not zero
isoformat(dt) ==
    [date |-> <<dt[1], dt[2], dt[3]>>, time |-> <<dt[4], dt[5], dt[6]>>,
     fraction |-> IF dt[7] = 0 THEN <<>> ELSE <<dt[7]>>]

\* datetime.strftime("%Y-%m-%d")
strftime(dt) ==
    Pad(dt[1], 4) \o <<"-">> \o Pad(dt[2], 2) \o <<"-">> \o Pad(dt[3], 2)

(***************************************************************************)
(* datetime.strptime(date, "%Y-%m-%d").  The format compiles to the        *)
(* regular expression                                                      *)
(*   (\d\d\d\d)-(1[0-2]|0[1-9]|[1-9])-(3[0-1]|[1-2]\d|0[1-9]|[1-9]| [1-9]) *)
(* which is matched at the start of the string, alternatives tried in      *)
(* order with backtracking; text left after the match, a year of 0 and a   *)
(* day beyond the month's length all raise ValueError.                     *)
(***************************************************************************)
At(s, i, cs) == i >= 1 /\ i <= Len(s) /\ s[i] \in cs

\* lengths of the alternatives of %m that match at i, in regex order
MonthAlts(s, i) ==
    (IF At(s, i, {"1"}) /\ At(s, i + 1, {"0", "1", "2"}) THEN <<2>> ELSE <<>>)
 \o (IF At(s, i, {"0"}) /\ At(s, i + 1, DigitSet \ {"0"}) THEN <<2>> ELSE <<>>)
 \o (IF At(s, i, DigitSet \ {"0"}) THEN <<1>> ELSE <<>>)

\* [from, to] of the first alternative of %d that matches at j, <<>> if none
DayMatch(s, j) ==
    IF At(s, j, {"3"}) /\ At(s, j + 1, {"0", "1"}) THEN <<j, j + 1>>
    ELSE IF At(s, j, {"1", "2"}) /\ At(s, j + 1, DigitSet) THEN <<j, j + 1>>
    ELSE IF At(s, j, {"0"}) /\ At(s, j + 1, DigitSet \ {"0"}) THEN <<j, j + 1>>
    ELSE IF At(s, j, DigitSet \ {"0"}) THEN <<j, j>>
    ELSE IF At(s, j, {" "}) /\ At(s, j + 1, DigitSet \ {"0"}) THEN <<j + 1, j + 1>>
    ELSE <<>>

\* the regex match: <<month length, day from, day to>> or <<>>
RegexMatch(s) ==
    IF ~(\A i \in 1..4 : At(s, i, DigitSet)) \/ ~At(s, 5, {"-"}) THEN <<>>
    ELSE LET alts == MonthAlts(s, 6)
             ok(k) == At(s, 6 + alts[k], {"-"})
                      /\ DayMatch(s, 7 + alts[k]) # <<>>
             good == {k \in 1..Len(alts) : ok(k)}
         IN  IF good = {} THEN <<>>
             ELSE LET k == CHOOSE x \in good : \A z \in good : x <= z
                  IN  <<alts[k]>> \o DayMatch(s, 7 + alts[k])

strptime(s) ==
    LET found == RegexMatch(s)
    IN  IF found = <<>> THEN ValueError
        ELSE IF found[3] # Len(s) THEN ValueError
        ELSE LET y == int(s, 1, 4)
                 m == int(s, 6, 5 + found[1])
                 d == int(s, found[2], found[3])
             IN  IF y < 1 \/ d > DaysInMonth(y, m) THEN ValueError
                 ELSE <<y, m, d, 0, 0, 0, 0>>

(***************************************************************************)
(* The table store (the "dataset" tables db['translations'] and            *)
(* db['locations']).  A table is the sequence of its rows in insertion     *)
(* order; a row is a record of its columns.                                *)
(***************************************************************************)
Rows(table) == {table[i] : i \in 1..Len(table)}

Ids(rows) == {r.id : r \in rows}

\* the integer primary key the store assigns to the next inserted row
NextId(table) ==
    IF table = <<>> THEN 1
    ELSE (CHOOSE n \in Ids(Rows(table)) : \A k \in Ids(Rows(table)) : k <= n) + 1

\* table.insert(data) for the translations table: the table afterwards
insert_word(table, data) ==
    Append(table, [id |-> NextId(table), word |-> data.word,
                   translation |-> data.translation, anglosax |-> data.anglosax,
                   picture |-> data.picture, timestamp |-> data.timestamp,
                   language |-> data.language])

\* table.insert(data) for the locations table: the table afterwards
insert_location(table, data) ==
    Append(table, [id |-> NextId(table), name |-> data.name,
                   translated_name |-> data.translated_name,
                   translated_name_anglicized |-> data.translated_name_anglicized])

\* table.all()
all(table) == table

\* timestamp={"between": [lo, hi]}: lo <= timestamp <= hi, both inclusive
Between(r, lo, hi) ==
    r.timestamp # NoTimestamp /\ DtLE(lo, r.timestamp) /\ DtLE(r.timestamp, hi)

\* table.find(timestamp={"between": [lo, hi]}): no order, no limit
find_between(table, lo, hi) == SelectSeq(table, LAMBDA r : Between(r, lo, hi))

\* table.find(timestamp={"between": [lo, hi]}, language=language)
find_language(table, lo, hi, language) ==
    SelectSeq(table, LAMBDA r : Between(r, lo, hi) /\ r.language = language)

\* the greatest timestamp among rows[1..i]
RECURSIVE MaxTimestamp(_, _)
MaxTimestamp(rows, i) ==
    IF i = 1 THEN rows[1].timestamp
    ELSE LET m == MaxTimestamp(rows, i - 1)
         IN  IF DtLE(rows[i].timestamp, m) THEN m ELSE rows[i].timestamp

\* the positions of the rows that no other row exceeds in timestamp
Latest(rows) ==
    LET m == MaxTimestamp(rows, Len(rows))
    IN  {i \in 1..Len(rows) : rows[i].timestamp = m}

Remove(rows, i) == SubSeq(rows, 1, i - 1) \o SubSeq(rows, i + 1, Len(rows))

\* order_by='-timestamp', _limit=n: every list the store may return; rows of
\* equal timestamp come in an order the query does not determine
RECURSIVE OrderedLimit(_, _)
OrderedLimit(rows, n) ==
    IF n = 0 \/ rows = <<>> THEN {<<>>}
    ELSE UNION {{<<rows[i]>> \o rest : rest \in OrderedLimit(Remove(rows, i), n - 1)} :
                i \in Latest(rows)}

\* table.find_one(name=name): the first match, or <<>> when there is none
find_one(table, name) ==
    LET hits == SelectSeq(table, LAMBDA r : r.name = name)
    IN  IF hits = <<>> THEN <<>> ELSE <<hits[1]>>

(***************************************************************************)
(* seed_db.py: twelve Mandarin rows on 2024-06-07, five minutes apart from *)
(* 10:00:00.  The translation column is written in ASCII here.             *)
(***************************************************************************)
SeedWords == <<"hello", "world", "friend", "love", "peace", "family",
               "food", "water", "sun", "moon", "star", "school">>

SeedAnglosax == <<"Ni hao", "Shi jie", "Peng you", "Ai", "He ping", "Jia ting",
                  "Shi wu", "Shui", "Tai yang", "Yue liang", "Xing xing",
                  "Xue xiao">>

SeedPictures == <<"base64string1", "base64string2", "base64string3",
                  "base64string4", "base64string5", "base64string6",
                  "base64string7", "base64string8", "base64string9",
                  "base64string10", "base64string11", "base64string12">>

seed_data ==
    [i \in 1..12 |->
        [word |-> SeedWords[i], translation |-> SeedAnglosax[i],
         anglosax |-> SeedAnglosax[i], picture |-> SeedPictures[i],
         timestamp |-> <<2024, 6, 7, 10, 5 * (i - 1), 0, 0>>,
         language |-> "Mandarin"]]

\* for entry in seed_data: table.insert(entry)
RECURSIVE seed_db(_, _)
seed_db(table, i) ==
    IF i > Len(seed_data) THEN table
    ELSE seed_db(insert_word(table, seed_data[i]), i + 1)

(***************************************************************************)
(* Request inputs.                                                         *)
(***************************************************************************)
\* request bodies of POST /words (WordEntry; the id field is not read)
WordEntry ==
    { [word |-> "hello", translation |-> "Ni hao", anglosax |-> "Ni hao",
       picture |-> "base64string1", timestamp |-> NoTimestamp,
       language |-> None],
      [word |-> "hello", translation |-> "Ni hao", anglosax |-> None,
       picture |-> None, timestamp |-> <<2024, 6, 7, 0, 0, 0, 0>>,
       language |-> "Mandarin"],
      [word |-> "sun", translation |-> "sol", anglosax |-> None,
       picture |-> "base64sol", timestamp |-> <<2024, 6, 7, 23, 59, 59, 999999>>,
       language |-> "es"],
      [word |-> "", translation |-> "", anglosax |-> "Ping",
       picture |-> "base64string5", timestamp |-> <<2024, 6, 7, 10, 20, 0, 0>>,
       language |-> "Mandarin"] }

\* request bodies of POST /locations (LocationEntry; the id field is not read)
LocationEntry ==
    { [name |-> "Paris", translated_name |-> "Bali",
       translated_name_anglicized |-> "Ba li"],
      [name |-> "Paris", translated_name |-> "Bali",
       translated_name_anglicized |-> ""],
      [name |-> "Tokyo", translated_name |-> "Dongjing",
       translated_name_anglicized |-> "Dong jing"],
      [name |-> "", translated_name |-> "Bali",
       translated_name_anglicized |-> "Ba li"],
      [name |-> "Tokyo", translated_name |-> "",
       translated_name_anglicized |-> "Dong jing"],
      [name |-> "", translated_name |-> "",
       translated_name_anglicized |-> ""] }

\* values of the clock read by datetime.utcnow() and datetime.now()
NowValues == {<<2024, 6, 7, 23, 59, 59, 999999>>, <<2024, 6, 8, 0, 0, 0, 0>>}

Languages == {"Mandarin", "es"}

\* values of the date query parameter
DateInputs ==
    { <<"2", "0", "2", "4", "-", "0", "6", "-", "0", "7">>,
      <<"2", "0", "2", "4", "-", "6", "-", "7">>,
      <<"2", "0", "2", "4", "-", "0", "6", "-", " ", "8">>,
      <<"2", "0", "2", "4", "/", "0", "6", "/", "0", "7">>,
      <<"2", "0", "2", "3", "-", "0", "2", "-", "2", "9">>,
      <<"2", "0", "2", "4", "-", "0", "6", "-", "0", "7", "T">> }

(***************************************************************************)
(* Responses.                                                              *)
(***************************************************************************)
JSONResponse(status_code, content) == [status |-> status_code, content |-> content]

\* the response of a request whose handler has not returned yet
NoResponse == [status |-> 0, content |-> <<>>]

\* w['timestamp'] = w['timestamp'].isoformat() where it is a datetime
WithIsoTimestamp(w) ==
    IF w.timestamp # NoTimestamp THEN [w EXCEPT !.timestamp = isoformat(@)] ELSE w

InvalidDate == [detail |-> "Invalid date format. Use YYYY-MM-DD."]

\* _limit=8 of the per-day queries
Limit == 8

(***************************************************************************)
(* Word API.  Each handler issues one store call, so it is one step.       *)
(* req is the last request, resp its response, calls the store calls the   *)
(* handler made.                                                           *)
(***************************************************************************)
\* create requests accepted so far
Creates ==
    (Len(translations) - (IF seeded THEN Len(seed_data) ELSE 0))
      + Len(locations) + BagCardinality(inflight)

\* the body of GET /words; query parameters are not declared and not read
get_words_content(table, params) == [i \in 1..Len(all(table)) |-> WithIsoTimestamp(all(table)[i])]

get_words ==
    /\ req' = [op |-> "get_words"]
    /\ resp' = JSONResponse(200, get_words_content(translations, <<>>))
    /\ calls' = <<"all">>
    /\ UNCHANGED <<translations, locations, seeded, inflight>>

\* a variant that stamps every entry with the clock
WordData_always_now(entry, now) ==
    [word |-> entry.word, translation |-> entry.translation,
     anglosax |-> entry.anglosax, picture |-> entry.picture,
     timestamp |-> now, language |-> entry.language]

\* ts = entry.timestamp or datetime.utcnow(); the clock is read only when
\* the entry carries no timestamp
WordData(entry, now) ==
    [word |-> entry.word, translation |-> entry.translation,
     anglosax |-> entry.anglosax, picture |-> entry.picture,
     timestamp |-> IF entry.timestamp # NoTimestamp THEN entry.timestamp ELSE now,
     language |-> entry.language]

add_word(entry, now) ==
    /\ Creates < MaxCreates
    /\ req' = [op |-> "add_word", entry |-> entry,
               now |-> IF entry.timestamp # NoTimestamp THEN NoTimestamp ELSE now]
    /\ translations' = insert_word(translations, WordData(entry, now))
    /\ resp' = JSONResponse(200, [success |-> TRUE,
                                  id |-> translations'[Len(translations')].id])
    /\ calls' = <<"insert">>
    /\ UNCHANGED <<locations, seeded, inflight>>

\* a variant whose day ends at 23:59:59.000000
get_words_of_the_day_whole_seconds(date) ==
    LET day_start == strptime(date)
        day_end == replace(day_start, 23, 59, 59, 0)
    IN  /\ req' = [op |-> "get_words_of_the_day", date |-> date]
        /\ IF day_start = ValueError
           THEN /\ resp' = JSONResponse(400, InvalidDate)
                /\ calls' = <<>>
           ELSE /\ \E words \in OrderedLimit(
                         find_between(translations, day_start, day_end), Limit) :
                      resp' = JSONResponse(200, [i \in 1..Len(words) |-> WithIsoTimestamp(words[i])])
                /\ calls' = <<"find">>
        /\ UNCHANGED <<translations, locations, seeded, inflight>>

\* a variant that does not catch the ValueError of strptime
get_words_of_the_day_uncaught(date) ==
    LET day_start == strptime(date)
        day_end == replace(day_start, 23, 59, 59, 999999)
    IN  /\ req' = [op |-> "get_words_of_the_day", date |-> date]
        /\ IF day_start = ValueError
           THEN /\ resp' = JSONResponse(500, "Internal Server Error")
                /\ calls' = <<>>
           ELSE /\ \E words \in OrderedLimit(
                         find_between(translations, day_start, day_end), Limit) :
                      resp' = JSONResponse(200, [i \in 1..Len(words) |-> WithIsoTimestamp(words[i])])
                /\ calls' = <<"find">>
        /\ UNCHANGED <<translations, locations, seeded, inflight>>

get_words_of_the_day(date) ==
    LET day_start == strptime(date)
        day_end == replace(day_start, 23, 59, 59, 999999)
    IN  /\ req' = [op |-> "get_words_of_the_day", date |-> date]
        /\ IF day_start = ValueError
           THEN /\ resp' = JSONResponse(400, InvalidDate)
                /\ calls' = <<>>
           ELSE /\ \E words \in OrderedLimit(
                         find_between(translations, day_start, day_end), Limit) :
                      resp' = JSONResponse(200, [i \in 1..Len(words) |-> WithIsoTimestamp(words[i])])
                /\ calls' = <<"find">>
        /\ UNCHANGED <<translations, locations, seeded, inflight>>

\* a variant that keeps the picture
Redacted_with_picture(w) ==
    LET v == WithIsoTimestamp(w)
    IN  [word |-> v.word, anglosax |-> v.anglosax, timestamp |-> v.timestamp,
         language |-> v.language, id |-> v.id, picture |-> v.picture]

\* the dictionary the redacted listing builds for a row
Redacted(w) ==
    LET v == WithIsoTimestamp(w)
    IN  [word |-> v.word, anglosax |-> v.anglosax, timestamp |-> v.timestamp,
         language |-> v.language, id |-> v.id]

get_words_today(now) ==
    LET day_start == replace(now, 0, 0, 0, 0)
        day_end == replace(now, 23, 59, 59, 999999)
        words == find_between(translations, day_start, day_end)
    IN  /\ req' = [op |-> "get_words_today", now |-> now]
        /\ resp' = JSONResponse(200, [i \in 1..Len(words) |-> Redacted(words[i])])
        /\ calls' = <<"find">>
        /\ UNCHANGED <<translations, locations, seeded, inflight>>

\* the dictionary the by-language listing builds for a row
Full(w) ==
    LET v == WithIsoTimestamp(w)
    IN  [word |-> v.word, anglosax |-> v.anglosax, translation |-> v.translation,
         picture |-> v.picture, timestamp |-> v.timestamp,
         language |-> v.language, id |-> v.id]

\* a variant that does not filter by language
get_words_by_language_any(language, date) ==
    LET day_start == strptime(date)
        day_end == replace(day_start, 23, 59, 59, 999999)
    IN  /\ req' = [op |-> "get_words_by_language", language |-> language,
                   date |-> date]
        /\ IF day_start = ValueError
           THEN /\ resp' = JSONResponse(400, InvalidDate)
                /\ calls' = <<>>
           ELSE /\ \E words \in OrderedLimit(
                         find_between(translations, day_start, day_end), Limit) :
                      resp' = JSONResponse(200, [i \in 1..Len(words) |-> Full(words[i])])
                /\ calls' = <<"find">>
        /\ UNCHANGED <<translations, locations, seeded, inflight>>

get_words_by_language(language, date) ==
    LET day_start == strptime(date)
        day_end == replace(day_start, 23, 59, 59, 999999)
    IN  /\ req' = [op |-> "get_words_by_language", language |-> language,
                   date |-> date]
        /\ IF day_start = ValueError
           THEN /\ resp' = JSONResponse(400, InvalidDate)
                /\ calls' = <<>>
           ELSE /\ \E words \in OrderedLimit(
                         find_language(translations, day_start, day_end, language),
                         Limit) :
                      resp' = JSONResponse(200, [i \in 1..Len(words) |-> Full(words[i])])
                /\ calls' = <<"find">>
        /\ UNCHANGED <<translations, locations, seeded, inflight>>

(***************************************************************************)
(* Location API.  add_location makes two store calls, find_one and insert. *)
(* Handlers of different requests run concurrently on the server's worker  *)
(* threads, so other requests' store calls may fall between the two:       *)
(* add_location is the handler up to and including find_one, and           *)
(* add_location_insert is the rest of it for a request that found no row.  *)
(* inflight is the bag of requests that are between the two calls.         *)
(***************************************************************************)
\* a variant that inserts without looking the name up
add_location_no_lookup(location) ==
    /\ req' = [op |-> "add_location", location |-> location]
    /\ IF location.name = "" \/ location.translated_name = ""
       THEN /\ resp' = JSONResponse(400,
                 [detail |-> "Name and translated name cannot be empty."])
            /\ calls' = <<>>
            /\ UNCHANGED inflight
       ELSE /\ BagCardinality(inflight) < MaxInflight
            /\ Creates < MaxCreates
            /\ inflight' = inflight (+) SetToBag({location})
            /\ resp' = NoResponse
            /\ calls' = <<>>
    /\ UNCHANGED <<translations, locations, seeded>>

\* a variant that validates the name only
add_location_name_only(location) ==
    /\ req' = [op |-> "add_location", location |-> location]
    /\ IF location.name = ""
       THEN /\ resp' = JSONResponse(400,
                 [detail |-> "Name and translated name cannot be empty."])
            /\ calls' = <<>>
            /\ UNCHANGED inflight
       ELSE IF find_one(locations, location.name) # <<>>
       THEN /\ resp' = JSONResponse(202, [detail |-> "Location already exists."])
            /\ calls' = <<"find_one">>
            /\ UNCHANGED inflight
       ELSE /\ BagCardinality(inflight) < MaxInflight
            /\ Creates < MaxCreates
            /\ inflight' = inflight (+) SetToBag({location})
            /\ resp' = NoResponse
            /\ calls' = <<"find_one">>
    /\ UNCHANGED <<translations, locations, seeded>>

add_location(location) ==
    /\ req' = [op |-> "add_location", location |-> location]
    /\ IF location.name = "" \/ location.translated_name = ""
       THEN /\ resp' = JSONResponse(400,
                 [detail |-> "Name and translated name cannot be empty."])
            /\ calls' = <<>>
            /\ UNCHANGED inflight
       ELSE IF find_one(locations, location.name) # <<>>
       THEN /\ resp' = JSONResponse(202, [detail |-> "Location already exists."])
            /\ calls' = <<"find_one">>
            /\ UNCHANGED inflight
       ELSE /\ BagCardinality(inflight) < MaxInflight
            /\ Creates < MaxCreates
            /\ inflight' = inflight (+) SetToBag({location})
            /\ resp' = NoResponse
            /\ calls' = <<"find_one">>
    /\ UNCHANGED <<translations, locations, seeded>>

\* a variant that overwrites a stored row of the same name
add_location_insert_overwrite(location) ==
    /\ BagIn(location, inflight)
    /\ inflight' = inflight (-) SetToBag({location})
    /\ req' = [op |-> "add_location", location |-> location]
    /\ locations' =
          IF find_one(locations, location.name) # <<>>
          THEN [i \in 1..Len(locations) |->
                  IF locations[i].name = location.name
                  THEN [locations[i] EXCEPT
                          !.translated_name = location.translated_name,
                          !.translated_name_anglicized =
                              location.translated_name_anglicized]
                  ELSE locations[i]]
          ELSE insert_location(locations,
                 [name |-> location.name,
                  translated_name |-> location.translated_name,
                  translated_name_anglicized |-> location.translated_name_anglicized])
    /\ resp' = JSONResponse(200, [success |-> TRUE,
                                  id |-> locations'[Len(locations')].id])
    /\ calls' = <<"find_one", "insert">>
    /\ UNCHANGED <<translations, seeded>>

add_location_insert(location) ==
    /\ BagIn(location, inflight)
    /\ inflight' = inflight (-) SetToBag({location})
    /\ req' = [op |-> "add_location", location |-> location]
    /\ locations' = insert_location(locations,
          [name |-> location.name, translated_name |-> location.translated_name,
           translated_name_anglicized |-> location.translated_name_anglicized])
    /\ resp' = JSONResponse(200, [success |-> TRUE,
                                  id |-> locations'[Len(locations')].id])
    /\ calls' = <<"find_one", "insert">>
    /\ UNCHANGED <<translations, seeded>>

get_locations ==
    /\ req' = [op |-> "get_locations"]
    /\ resp' = JSONResponse(200, all(locations))
    /\ calls' = <<"all">>
    /\ UNCHANGED <<translations, locations, seeded, inflight>>

(***************************************************************************)
(* The consumer script (voice_agent.py): GET /words with params            *)
(* {"date": today}, then 'picture' is popped from every entry.  resp is    *)
(* the list the function returns.                                          *)
(***************************************************************************)
pop(w, key) == [k \in (DOMAIN w) \ {key} |-> w[k]]

PopPicture(w) == pop(w, "picture")

get_words_for_today(now) ==
    LET today == strftime(now)
        words == get_words_content(translations, [date |-> today])
    IN  /\ req' = [op |-> "get_words_for_today", now |-> now, today |-> today]
        /\ resp' = JSONResponse(200, [i \in 1..Len(words) |-> PopPicture(words[i])])
        /\ calls' = <<"all">>
        /\ UNCHANGED <<translations, locations, seeded, inflight>>

(***************************************************************************)
(* The system: the store as set up (and possibly seeded), then any         *)
(* sequence of requests.                                                   *)
(***************************************************************************)
Init ==
    /\ seeded \in BOOLEAN
    /\ translations = (IF seeded THEN seed_db(<<>>, 1) ELSE <<>>)
    /\ locations = <<>>
    /\ inflight = EmptyBag
    /\ req = [op |-> "none"]
    /\ resp = NoResponse
    /\ calls = <<>>

Next ==
    \/ get_words
    \/ \E entry \in WordEntry, now \in NowValues : add_word(entry, now)
    \/ \E date \in DateInputs : get_words_of_the_day(date)
    \/ \E now \in NowValues : get_words_today(now)
    \/ \E language \in Languages, date \in DateInputs :
          get_words_by_language(language, date)
    \/ \E location \in LocationEntry : add_location(location)
    \/ \E location \in LocationEntry : add_location_insert(location)
    \/ get_locations
    \/ \E now \in NowValues : get_words_for_today(now)

Spec == Init /\ [][Next]_vars

(***************************************************************************)
(* Vocabulary of the properties.                                           *)
(***************************************************************************)
IsPrefix(a, b) == Len(a) <= Len(b) /\ SubSeq(b, 1, Len(a)) = a

RowOf(table, id) == CHOOSE r \in Rows(table) : r.id = id

\* the calendar date <<year, month, day>> of a datetime
DateOf(dt) == <<dt[1], dt[2], dt[3]>>

\* the rows of the translations table whose timestamp is on date d
RowsOn(d) == {r \in Rows(translations) : DateOf(r.timestamp) = d}

\* the rows added through POST /words
Added == {r \in Rows(translations) :
            r.id > (IF seeded THEN Len(seed_data) ELSE 0)}

Min(a, b) == IF a <= b THEN a ELSE b

HasEmptyField(location) ==
    \/ location.name = ""
    \/ location.translated_name = ""
    \/ location.translated_name_anglicized = ""

NameStored(name) == \E r \in Rows(locations) : r.name = name

(***************************************************************************)
(* C1.  The locations table never holds two rows with the same name, also  *)
(* when create-location requests are handled concurrently.                 *)
(***************************************************************************)
C1_UniqueNames ==
    \A i, j \in 1..Len(locations) :
        locations[i].name = locations[j].name => i = j

(***************************************************************************)
(* C2 as stated.  A create-location request whose name is the name of a    *)
(* stored row is answered 202 without an id, makes no insert and leaves    *)
(* the locations table as it was.                                          *)
(***************************************************************************)
AlreadyExistsSignal ==
    /\ resp'.status = 202
    /\ "id" \notin DOMAIN resp'.content
    /\ \A k \in 1..Len(calls') : calls'[k] # "insert"
    /\ locations' = locations
    /\ inflight' = inflight

C2_DuplicateAnswered202 ==
    [][\A location \in LocationEntry :
          (add_location(location) /\ NameStored(location.name))
             => AlreadyExistsSignal]_vars

(***************************************************************************)
(* C2 as amended.  A create-location request whose name is the name of a   *)
(* stored row and whose translated_name is not empty is answered 202       *)
(* without an id, makes no insert and leaves the locations table as it     *)
(* was.                                                                    *)
(***************************************************************************)
C2_ValidDuplicateAnswered202 ==
    [][\A location \in LocationEntry :
          (add_location(location) /\ NameStored(location.name)
             /\ location.translated_name # "")
             => AlreadyExistsSignal]_vars

C2_Witness ==
    /\ req.op = "add_location"
    /\ resp.status = 202
    /\ NameStored(req.location.name)

(***************************************************************************)
(* C3 as stated.  A create-location request with an empty name,            *)
(* translated_name or translated_name_anglicized is answered 400 and       *)
(* inserts no row.                                                         *)
(***************************************************************************)
C3_AnyEmptyFieldRejected ==
    /\ (req.op = "add_location" /\ HasEmptyField(req.location) /\ resp # NoResponse)
          => (resp.status = 400 /\ calls = <<>>)
    /\ \A r \in Rows(locations) : ~HasEmptyField(r)

(***************************************************************************)
(* C3 as amended.  A create-location request with an empty name or an      *)
(* empty translated_name is answered 400, makes no store call and inserts  *)
(* no row, whatever the other fields contain; an empty                     *)
(* translated_name_anglicized alone is accepted.                           *)
(***************************************************************************)
C3_EmptyNameRejected ==
    /\ (req.op = "add_location"
          /\ (req.location.name = "" \/ req.location.translated_name = ""))
          => (resp.status = 400 /\ "detail" \in DOMAIN resp.content /\ calls = <<>>)
    /\ \A r \in Rows(locations) \cup BagToSet(inflight) :
          r.name # "" /\ r.translated_name # ""

C3_Witness ==
    /\ req.op = "add_location"
    /\ req.location.name # ""
    /\ req.location.translated_name = ""
    /\ resp.status = 400
    /\ \E r \in Rows(locations) : r.translated_name_anglicized = ""

(***************************************************************************)
(* C4.  List-words-for-date answers a valid date D with rows whose         *)
(* timestamp is on D only; when n rows are on D it returns min(8, n) of    *)
(* them, no row left out is more recent than a row returned, and the rows  *)
(* come in descending timestamp order, strictly so where the timestamps    *)
(* differ.                                                                 *)
(***************************************************************************)
\* the stored timestamp of the i-th returned object
StoredTs(i) == RowOf(translations, resp.content[i].id).timestamp

Returned == {resp.content[i].id : i \in 1..Len(resp.content)}

C4_LatestEightOfDate ==
    (req.op = "get_words_of_the_day" /\ resp.status = 200) =>
        LET day == RowsOn(DateOf(strptime(req.date)))
            n == Len(resp.content)
        IN  /\ \A i \in 1..n :
                 /\ resp.content[i].id \in Ids(day)
                 /\ resp.content[i] =
                      WithIsoTimestamp(RowOf(translations, resp.content[i].id))
            /\ n = Min(Limit, Cardinality(day))
            /\ Cardinality(Returned) = n
            /\ \A r \in day : r.id \notin Returned =>
                 \A i \in 1..n : DtLE(r.timestamp, StoredTs(i))
            /\ \A i, j \in 1..n : i < j =>
                 /\ DtLE(StoredTs(j), StoredTs(i))
                 /\ StoredTs(i) # StoredTs(j) => ~DtLE(StoredTs(i), StoredTs(j))

\* more than eight rows on the date, two of them with the timestamp at which
\* the listing is cut
C4_Witness ==
    /\ req.op = "get_words_of_the_day"
    /\ resp.status = 200
    /\ Len(resp.content) = Limit
    /\ Cardinality(RowsOn(DateOf(strptime(req.date)))) > Limit
    /\ \E r \in RowsOn(DateOf(strptime(req.date))) :
          r.id \notin Returned /\ r.timestamp = StoredTs(Limit)

(***************************************************************************)
(* C5.  List-today's-words-redacted returns one object for every row whose *)
(* timestamp is on the current UTC day, however many there are, and every  *)
(* object has exactly the keys word, anglosax, timestamp, language and id  *)
(* (never picture or translation), with the values of its row.            *)
(***************************************************************************)
C5_TodayRedacted ==
    req.op = "get_words_today" =>
        LET day == RowsOn(DateOf(req.now))
            n == Len(resp.content)
        IN  /\ resp.status = 200
            /\ Returned = Ids(day)
            /\ n = Cardinality(day)
            /\ \A i \in 1..n :
                 LET o == resp.content[i]
                     r == RowOf(translations, o.id)
                 IN  /\ DOMAIN o = {"word", "anglosax", "timestamp", "language", "id"}
                     /\ o.word = r.word
                     /\ o.anglosax = r.anglosax
                     /\ o.language = r.language
                     /\ o.timestamp = isoformat(r.timestamp)

\* more rows than the per-day cap, rows with a picture and a translation
C5_Witness ==
    /\ req.op = "get_words_today"
    /\ Len(resp.content) > Limit
    /\ \E r \in RowsOn(DateOf(req.now)) : r.picture # None /\ r.translation # ""
    /\ \E r \in RowsOn(DateOf(req.now)) : r \in Added

(***************************************************************************)
(* C6 as stated.  Once a word entry with language tag L and a timestamp on *)
(* date D has been created, every list-by-language query for (L, D)        *)
(* returns it and no query for (L2, D) with L2 # L returns it.             *)
(***************************************************************************)
C6_CreatedEntryListed ==
    (req.op = "get_words_by_language" /\ resp.status = 200) =>
        \A r \in Added :
            IF r.language = req.language
            THEN DateOf(r.timestamp) = DateOf(strptime(req.date))
                    => r.id \in Returned
            ELSE r.id \notin Returned

(***************************************************************************)
(* C6 as amended.  A list-by-language query for (L, D) returns an entry    *)
(* with tag L and a timestamp on D whenever fewer than 8 other entries     *)
(* with tag L on D have a timestamp at least as recent as its own (the     *)
(* listing is capped at the 8 most recent); a query with a different tag   *)
(* or a different date never returns it.                                   *)
(***************************************************************************)
AtLeastAsRecent(r) ==
    {q \in RowsOn(DateOf(r.timestamp)) :
        q.id # r.id /\ q.language = r.language /\ DtLE(r.timestamp, q.timestamp)}

C6_RecentEntryListed ==
    (req.op = "get_words_by_language" /\ resp.status = 200) =>
        \A r \in Rows(translations) :
            IF r.language = req.language
                 /\ DateOf(r.timestamp) = DateOf(strptime(req.date))
            THEN Cardinality(AtLeastAsRecent(r)) < Limit => r.id \in Returned
            ELSE r.id \notin Returned

\* an added entry is returned under its tag while entries of another tag and
\* older entries of the same tag on that date are stored
C6_Witness ==
    /\ req.op = "get_words_by_language"
    /\ resp.status = 200
    /\ \E r \in Added : r.language = req.language /\ r.id \in Returned
    /\ \E r \in Added : r.language # req.language
    /\ \E r \in RowsOn(DateOf(strptime(req.date))) :
          r.language = req.language /\ r.id \notin Returned

(***************************************************************************)
(* C7.  A create-word request returns a positive integer id that no stored *)
(* row had, so creating the same word twice yields two rows with distinct  *)
(* ids; a list-all that follows contains exactly one row with that id, its *)
(* word, translation, anglosax, picture and language are the submitted     *)
(* ones, and its timestamp is the submitted timestamp or, when none was    *)
(* submitted, the UTC time of the create call.                             *)
(***************************************************************************)
\* the listed object o shows the entry of the create request
Shows(o, entry, now) ==
    /\ o.word = entry.word
    /\ o.translation = entry.translation
    /\ o.anglosax = entry.anglosax
    /\ o.picture = entry.picture
    /\ o.language = entry.language
    /\ o.timestamp = isoformat(IF entry.timestamp # NoTimestamp
                               THEN entry.timestamp ELSE now)

ReadOps == {"get_words", "get_words_of_the_day", "get_words_today",
            "get_words_by_language", "get_locations", "get_words_for_today"}

C8_AppendOnly ==
    [][/\ IsPrefix(translations, translations')
       /\ IsPrefix(locations, locations')
       /\ req'.op \in ReadOps =>
             translations' = translations /\ locations' = locations
       /\ req'.op = "add_word" =>
             Len(translations') <= Len(translations) + 1 /\ locations' = locations
       /\ req'.op = "add_location" =>
             Len(locations') <= Len(locations) + 1 /\ translations' = translations
       /\ req'.op \in ReadOps \cup {"add_word", "add_location"}]_vars

\* both tables have grown and a read has just been served
C8_Witness ==
    /\ Added # {}
    /\ locations # <<>>
    /\ req.op \in ReadOps

(***************************************************************************)
(* C9 as stated.  For every date string that is not of the form            *)
(* YYYY-MM-DD (four digits, two digits, two digits, joined by "-"),        *)
(* list-words-for-date and list-words-by-language answer 400 with a detail *)
(* message and make no store call.                                         *)
(***************************************************************************)
IsYYYYMMDD(s) ==
    /\ Len(s) = 10
    /\ \A i \in {1, 2, 3, 4, 6, 7, 9, 10} : s[i] \in DigitSet
    /\ s[5] = "-"
    /\ s[8] = "-"

DateOps == {"get_words_of_the_day", "get_words_by_language"}

ValidationFailure ==
    /\ resp.status = 400
    /\ DOMAIN resp.content = {"detail"}
    /\ calls = <<>>

C9_NotYYYYMMDDRejected ==
    (req.op \in DateOps /\ ~IsYYYYMMDD(req.date)) => ValidationFailure

(***************************************************************************)
(* C9 as amended.  Both operations answer 400 with a detail message and    *)
(* make no store call for every date string that is not a four-digit year  *)
(* other than 0000, "-", a month from 1 to 12 and "-" and a day of that    *)
(* month, where the month is written with one or two digits and the day    *)
(* with one or two digits or with a space and one digit; such a string is  *)
(* accepted also when it is not zero-padded ("2024-6-7").                  *)
(***************************************************************************)
\* s[a..b] is one or two digits
IsNumber(s, a, b) == b - a \in {0, 1} /\ \A i \in a..b : s[i] \in DigitSet

IsCalendarDate(s) ==
    \E p, q \in 1..Len(s) :
        /\ p = 5
        /\ q \in {7, 8}
        /\ s[p] = "-"
        /\ s[q] = "-"
        /\ \A i \in 1..4 : s[i] \in DigitSet
        /\ IsNumber(s, 6, q - 1)
        /\ \/ IsNumber(s, q + 1, Len(s))
           \/ Len(s) = q + 2 /\ s[q + 1] = " " /\ s[q + 2] \in DigitSet
        /\ LET y == int(s, 1, 4)
               m == int(s, 6, q - 1)
               d == int(s, IF s[q + 1] = " " THEN q + 2 ELSE q + 1, Len(s))
           IN  y >= 1 /\ m \in 1..12 /\ d >= 1 /\ d <= DaysInMonth(y, m)

C9_UnparsableRejected ==
    (req.op \in DateOps /\ ~IsCalendarDate(req.date)) => ValidationFailure

\* a well-formed string that names no calendar date has been rejected
C9_Witness ==
    /\ req.op \in DateOps
    /\ IsYYYYMMDD(req.date)
    /\ ~IsCalendarDate(req.date)
    /\ resp.status = 400

(***************************************************************************)
(* C10.  The consumer script's get_words_for_today returns today's words:  *)
(* every entry returned has a timestamp on the script's current day, every *)
(* stored entry of that day is returned, and no entry has a picture key.   *)
(***************************************************************************)
C10_TodaysWords ==
    req.op = "get_words_for_today" =>
        /\ \A i \in 1..Len(resp.content) :
              /\ resp.content[i].timestamp.date = DateOf(req.now)
              /\ "picture" \notin DOMAIN resp.content[i]
        /\ Ids(RowsOn(DateOf(req.now))) \subseteq Returned

====
